---------------------------- MODULE Spec2Model ----------------------------
(***************************************************************************)
(* Model of the Yuura Intelligence Hub snapshot fetcher:                   *)
(*   scripts/data_collection/config.py          (configuration loading)    *)
(*   scripts/data_collection/fetch_snapshots.py (fetch, resolve, save)     *)
(*                                                                         *)
(* One behaviour is a sequence of process invocations (the cron job) over  *)
(* one environment, one external channel resource and one database.        *)
(* Optional values (Python None) are sequences of length 0 or 1.           *)
(* Library calls may raise: "dberr" is a psycopg2.Error, "http" an         *)
(* HttpError, "err" any other Exception.  connection.close() releases the  *)
(* socket and does not raise; a commit that raises has not committed.      *)
(***************************************************************************)
EXTENDS Integers, Sequences, FiniteSets, TLC

\* ------------------------------------------------------------------ bounds
MaxRuns  == 2      \* process invocations in one behaviour
MaxCount == 1      \* largest counter value of the channel in Spec
MaxStat  == 11     \* largest counter value of the channel in SpecFetch

\* ------------------------------------------------------------- vocabulary
Running == 0 - 1   \* exit_code / ret while the process has not decided

EnvNames == {"YOUTUBE_API_KEY", "DB_HOST", "DB_NAME", "DB_USER",
             "DB_PASSWORD", "SUPABASE_URL"}
PortValues == {"ok", "invalid"}
TalentIds == {"uuid_a", "uuid_b"}
ResponseFields == {"subscriberCount", "viewCount", "videoCount"}

VARIABLES
  env,            \* names of the environment variables that hold a value
  port,           \* DB_PORT: "ok" (unset or numeric, int() succeeds) or "invalid"
  talentRow,      \* talents row of the channel: <<>> or <<id>>
  apiItems,       \* the channel resource: <<>> or <<[field -> counter]>>
  snapshots,      \* committed rows of the snapshots table, in insert order
  dbClock,        \* database server clock
  run,            \* number of the current invocation
  history,        \* [exit_code, rows] of every finished invocation
  state,          \* where the current invocation is
  exit_code,      \* process exit code, Running until the process ends
  ret,            \* value main() is about to return
  configMissing,  \* names listed in the EnvironmentError message
  youtube,        \* API client built
  conn,           \* "none", "open" or "closed"
  response,       \* last API call: [status, items]
  stats,          \* result of fetch_channel_stats: <<>> or <<record>>
  talent_id,      \* result of get_talent_id: <<>> or <<id>>
  saveResult,     \* what save_snapshot did
  pending,        \* rows inserted in the open transaction, not committed
  txStart,        \* start time of the open transaction (value of NOW())
  calls,          \* calls made by this invocation, per kind
  rowsBefore      \* Len(snapshots) when this invocation started

world   == <<env, port, talentRow, apiItems>>
db      == <<snapshots, dbClock>>
vars    == <<env, port, talentRow, apiItems, snapshots, dbClock, run, history,
             state, exit_code, ret, configMissing, youtube, conn, response,
             stats, talent_id, saveResult, pending, txStart, calls, rowsBefore>>

NoCalls == [api |-> 0, connect |-> 0, lookup |-> 0, insert |-> 0,
            commit |-> 0, rollback |-> 0, close |-> 0]
NoSave == [ret |-> "none", fault |-> "none", kind |-> "none",
           rollbackTried |-> FALSE, rolledBack |-> FALSE]
NoResponse == [status |-> "none", items |-> <<>>]

Bump(c, k, yes) == [c EXCEPT ![k] = IF yes THEN @ + 1 ELSE @]

\* ------------------------------------------------------------- config.py
Required == <<"YOUTUBE_API_KEY", "DB_HOST", "DB_PASSWORD", "SUPABASE_URL">>

IsMissing(name) == name \notin env

validate_config == SelectSeq(Required, IsMissing)

SeqRange(s) == {s[i] : i \in 1..Len(s)}

\* ------------------------------------------------- the API's wire format
DigitChars == <<"0", "1", "2", "3", "4", "5", "6", "7", "8", "9">>

RECURSIVE ToDecimal(_)
ToDecimal(n) == IF n < 10 THEN <<DigitChars[n + 1]>>
                ELSE Append(ToDecimal(n \div 10), DigitChars[(n % 10) + 1])

Statistics(counts) == [k \in DOMAIN counts |-> ToDecimal(counts[k])]

ApiResponse(items) == [status |-> "ok",
                       items |-> [i \in 1..Len(items) |-> Statistics(items[i])]]

\* ---------------------------------------------------- fetch_channel_stats
DigitValue(ch) == CHOOSE d \in 0..9 : DigitChars[d + 1] = ch

PyIntLastDigit(s) == IF s = <<>> THEN 0 ELSE DigitValue(s[Len(s)])

RECURSIVE PyInt(_)
PyInt(s) == IF s = <<>> THEN 0
            ELSE PyInt(SubSeq(s, 1, Len(s) - 1)) * 10 + DigitValue(s[Len(s)])

StatGet(st, k) == IF k \in DOMAIN st THEN PyInt(st[k]) ELSE 0

fetch_channel_stats(resp) ==
  IF resp.status # "ok" THEN <<>>
  ELSE IF resp.items = <<>> THEN <<>>
  ELSE <<[subscriber_count |-> StatGet(resp.items[1], "subscriberCount"),
          view_count       |-> StatGet(resp.items[1], "viewCount"),
          video_count      |-> StatGet(resp.items[1], "videoCount")]>>

\* ---------------------------------------------------------- get_talent_id
LookupFaults == {"none", "cursor", "execute", "fetchone", "close"}

\* [ret: the returned option, raised: an exception left the function]
get_talent_id(row, f, kind) ==
  IF f = "none" THEN [ret |-> row, raised |-> FALSE]
  ELSE IF kind = "dberr" THEN [ret |-> <<>>, raised |-> FALSE]
  ELSE [ret |-> <<>>, raised |-> TRUE]

\* ---------------------------------------------------------- save_snapshot
SaveFaults == {"none", "cursor", "execute", "commit", "close"}

NOW_fixed(tx) == 0

NOW(tx) == tx

SnapshotRow_swapped(talent, st, now) ==
  [talent_id   |-> IF talent = <<>> THEN "NULL" ELSE talent[1],
   sub_count   |-> st.view_count,
   view_count  |-> st.subscriber_count,
   video_count |-> st.video_count,
   recorded_at |-> now]

SnapshotRow(talent, st, now) ==
  [talent_id   |-> IF talent = <<>> THEN "NULL" ELSE talent[1],
   sub_count   |-> st.subscriber_count,
   view_count  |-> st.view_count,
   video_count |-> st.video_count,
   recorded_at |-> now]

\* f: the call that raises (none: nothing raises); kind: what it raises;
\* rb: what conn.rollback() does when the handler calls it.
save_snapshot(talent, st, tx, f, kind, rb) ==
  LET inserted  == f \in {"none", "commit", "close"}
      committed == f \in {"none", "close"}
      caught    == f # "none" /\ kind = "dberr"
      undone    == caught /\ rb = "ok"
      row       == SnapshotRow(talent, st, NOW(tx))
  IN [ret           |-> IF f = "none" THEN "True"
                        ELSE IF undone THEN "False" ELSE "raised",
      fault         |-> f,
      kind          |-> IF f = "none" THEN "none" ELSE kind,
      insertTried   |-> f # "cursor",
      commitTried   |-> inserted,
      rollbackTried |-> caught,
      rolledBack    |-> undone,
      committedRows |-> IF committed THEN <<row>> ELSE <<>>,
      pendingRows   |-> IF inserted /\ ~committed /\ ~undone
                        THEN <<row>> ELSE <<>>]

\* ------------------------------------------------------------------- main
FetchFailed_never(s) == FALSE

FetchFailed(s) == s = <<>>

TalentMissing_never(t) == FALSE

TalentMissing(t) == t = <<>>

SaveReturnCode_zero(ok) == 0

SaveReturnCode(ok) == IF ok THEN 0 ELSE 1

ShouldClose_never(c) == FALSE

ShouldClose(c) == c = "open"

\* ------------------------------------------------------------------- Init
ProcInit ==
  /\ state = "import"
  /\ exit_code = Running
  /\ ret = Running
  /\ configMissing = <<>>
  /\ youtube = FALSE
  /\ conn = "none"
  /\ response = NoResponse
  /\ stats = <<>>
  /\ talent_id = <<>>
  /\ saveResult = NoSave
  /\ pending = <<>>
  /\ txStart = 0
  /\ calls = NoCalls
  /\ rowsBefore = 0

ItemsOver(range) ==
  {<<>>} \cup {<<c>> : c \in UNION {[D -> range] : D \in SUBSET ResponseFields}}

Init ==
  /\ env \in SUBSET EnvNames
  /\ port \in PortValues
  /\ talentRow \in {<<>>} \cup {<<t>> : t \in TalentIds}
  /\ apiItems \in ItemsOver(0..MaxCount)
  /\ snapshots = <<>>
  /\ dbClock = 1
  /\ run = 1
  /\ history = <<>>
  /\ ProcInit

InitFetch ==
  /\ env = EnvNames
  /\ port = "ok"
  /\ talentRow = <<"uuid_a">>
  /\ apiItems \in ItemsOver(0..MaxStat)
  /\ snapshots = <<>>
  /\ dbClock = 1
  /\ run = 1
  /\ history = <<>>
  /\ ProcInit

\* ---------------------------------------------------------------- actions
\* The process ends without main() having run (an exception at import).
ImportFails(where, names) ==
  /\ state' = where
  /\ configMissing' = names
  /\ exit_code' = 1
  /\ history' = Append(history, [exit_code |-> 1, rows |-> <<>>])
  /\ UNCHANGED <<world, db, run, ret, youtube, conn, response, stats,
                 talent_id, saveResult, pending, txStart, calls, rowsBefore>>

LoadConfig ==
  /\ state = "import"
  /\ IF port = "invalid"
       THEN ImportFails("import_error", <<>>)
       ELSE IF validate_config # <<>>
         THEN ImportFails("config_error", validate_config)
         ELSE /\ state' = "start"
              /\ UNCHANGED <<world, db, run, history, exit_code, ret,
                             configMissing, youtube, conn, response, stats,
                             talent_id, saveResult, pending, txStart, calls,
                             rowsBefore>>

BuildClient ==
  /\ state = "start"
  /\ \E o \in {"ok", "err"} :
       /\ youtube' = (o = "ok")
       /\ state' = IF o = "ok" THEN "api_connected" ELSE "aborted"
       /\ ret' = IF o = "ok" THEN ret ELSE 1
  /\ UNCHANGED <<world, db, run, history, exit_code, configMissing, conn,
                 response, stats, talent_id, saveResult, pending, txStart,
                 calls, rowsBefore>>

FetchStats ==
  /\ state = "api_connected"
  /\ \E o \in {"ok", "http", "err"} :
       LET resp   == IF o = "ok" THEN ApiResponse(apiItems)
                     ELSE [status |-> o, items |-> <<>>]
           result == fetch_channel_stats(resp)
       IN /\ response' = resp
          /\ stats' = result
          /\ state' = IF FetchFailed(result) THEN "aborted" ELSE "stats_fetched"
          /\ ret' = IF FetchFailed(result) THEN 1 ELSE ret
  /\ calls' = Bump(calls, "api", TRUE)
  /\ UNCHANGED <<world, db, run, history, exit_code, configMissing, youtube,
                 conn, talent_id, saveResult, pending, txStart, rowsBefore>>

ConnectDb ==
  /\ state = "stats_fetched"
  /\ \E o \in {"ok", "dberr", "err"} :
       /\ conn' = IF o = "ok" THEN "open" ELSE conn
       /\ state' = IF o = "ok" THEN "db_connected" ELSE "aborted"
       /\ ret' = IF o = "ok" THEN ret ELSE 1
  /\ calls' = Bump(calls, "connect", TRUE)
  /\ UNCHANGED <<world, db, run, history, exit_code, configMissing, youtube,
                 response, stats, talent_id, saveResult, pending, txStart,
                 rowsBefore>>

ResolveTalent ==
  /\ state = "db_connected"
  /\ \E f \in LookupFaults, kind \in {"dberr", "err"} :
       LET r     == get_talent_id(talentRow, f, kind)
           sent  == f # "cursor"
           begun == f \in {"none", "fetchone", "close"}
           fail  == r.raised \/ TalentMissing(r.ret)
       IN /\ talent_id' = r.ret
          /\ calls' = Bump(calls, "lookup", sent)
          /\ txStart' = IF begun THEN dbClock ELSE txStart
          /\ dbClock' = IF begun THEN dbClock + 1 ELSE dbClock
          /\ state' = IF fail THEN "aborted" ELSE "talent_resolved"
          /\ ret' = IF fail THEN 1 ELSE ret
  /\ UNCHANGED <<world, snapshots, run, history, exit_code, configMissing,
                 youtube, conn, response, stats, saveResult, pending,
                 rowsBefore>>

SaveSnapshot ==
  /\ state = "talent_resolved"
  /\ \E f \in SaveFaults, kind \in {"dberr", "err"}, rb \in {"ok", "dberr"} :
       \* stats is None: building the parameter tuple raises a TypeError
       LET ff == IF stats = <<>> THEN "cursor" ELSE f
           kk == IF stats = <<>> THEN "err" ELSE kind
           st == IF stats = <<>>
                   THEN [subscriber_count |-> 0, view_count |-> 0, video_count |-> 0]
                   ELSE stats[1]
           r  == save_snapshot(talent_id, st, txStart, ff, kk, rb)
       IN /\ saveResult' = [ret |-> r.ret, fault |-> r.fault, kind |-> r.kind,
                            rollbackTried |-> r.rollbackTried,
                            rolledBack |-> r.rolledBack]
          /\ calls' = Bump(Bump(Bump(calls, "insert", r.insertTried),
                                "commit", r.commitTried),
                           "rollback", r.rollbackTried)
          /\ snapshots' = snapshots \o r.committedRows
          /\ pending' = r.pendingRows
          /\ state' = IF r.ret = "True" THEN "snapshot_saved" ELSE "aborted"
          /\ ret' = IF r.ret = "raised" THEN 1 ELSE SaveReturnCode(r.ret = "True")
  /\ UNCHANGED <<world, dbClock, run, history, exit_code, configMissing,
                 youtube, conn, response, stats, talent_id, txStart,
                 rowsBefore>>

NewRows == SubSeq(snapshots, rowsBefore + 1, Len(snapshots))

\* The finally clause of main() and sys.exit(exit_code).
Cleanup ==
  /\ state \in {"snapshot_saved", "aborted"}
  /\ exit_code = Running
  /\ conn' = IF ShouldClose(conn) THEN "closed" ELSE conn
  /\ calls' = Bump(calls, "close", ShouldClose(conn))
  /\ pending' = IF ShouldClose(conn) THEN <<>> ELSE pending
  /\ state' = IF state = "snapshot_saved" THEN "done" ELSE state
  /\ exit_code' = ret
  /\ history' = Append(history, [exit_code |-> ret, rows |-> NewRows])
  /\ UNCHANGED <<world, db, run, ret, configMissing, youtube, response,
                 stats, talent_id, saveResult, txStart, rowsBefore>>

\* The scheduler starts the script again: a new process reads the same
\* environment and opens its own connection to the same database.
NextRun ==
  /\ exit_code # Running
  /\ run < MaxRuns
  /\ run' = run + 1
  /\ state' = "import"
  /\ exit_code' = Running
  /\ ret' = Running
  /\ configMissing' = <<>>
  /\ youtube' = FALSE
  /\ conn' = "none"
  /\ response' = NoResponse
  /\ stats' = <<>>
  /\ talent_id' = <<>>
  /\ saveResult' = NoSave
  /\ pending' = <<>>
  /\ txStart' = 0
  /\ calls' = NoCalls
  /\ rowsBefore' = Len(snapshots)
  /\ UNCHANGED <<world, db, history>>

Next ==
  \/ LoadConfig
  \/ BuildClient
  \/ FetchStats
  \/ ConnectDb
  \/ ResolveTalent
  \/ SaveSnapshot
  \/ Cleanup
  \/ NextRun

Spec == Init /\ [][Next]_vars

NextFetch ==
  \/ LoadConfig
  \/ BuildClient
  \/ FetchStats

SpecFetch == InitFetch /\ [][NextFetch]_vars

\* ---------------------------------------------------------------- helpers
Exited == exit_code # Running

MainRan == state \notin {"import", "import_error", "config_error"}

AllStepsSucceeded ==
  /\ youtube
  /\ stats # <<>>
  /\ conn # "none"
  /\ talent_id # <<>>
  /\ saveResult.ret = "True"

RowMatches(row) ==
  /\ row.talent_id = talent_id[1]
  /\ row.sub_count = stats[1].subscriber_count
  /\ row.view_count = stats[1].view_count
  /\ row.video_count = stats[1].video_count

\* ----------------------------------------------------------------- claims

\* C1: a finished process has exit code 0 exactly when the API client was
\* built, the stats were fetched, the database was connected, the talent was
\* resolved and save_snapshot returned success; every other termination
\* has exit code 1.
C1_ExitCode ==
  Exited => exit_code = IF AllStepsSucceeded THEN 0 ELSE 1

C1_Witness ==
  /\ exit_code = 0
  /\ state = "done"
  /\ AllStepsSucceeded

\* C2: when the process has ended, a connection that was opened is closed,
\* close was called exactly once on it, and close is never called when no
\* connection was opened.
C2_ConnectionClosed ==
  /\ calls.close <= 1
  /\ calls.close = 1 <=> conn = "closed"
  /\ conn # "none" => calls.connect = 1
  /\ Exited => conn # "open"

C2_Witness ==
  /\ exit_code = 1
  /\ conn = "closed"
  /\ saveResult.ret = "raised"
  /\ saveResult.rollbackTried
  /\ ~saveResult.rolledBack

\* C3: an INSERT is attempted only after the fetcher returned a record and
\* the resolver returned an identifier; when the fetcher returned nothing no
\* database call is made at all, and when the resolver returned nothing no
\* insert and no commit is attempted.
C3_InsertNeedsFetchAndResolve ==
  /\ calls.insert > 0 => stats # <<>> /\ talent_id # <<>>
  /\ (MainRan /\ stats = <<>>) =>
        /\ calls.connect = 0
        /\ calls.lookup = 0
        /\ calls.insert = 0
        /\ calls.commit = 0
        /\ NewRows = <<>>
  /\ (MainRan /\ talent_id = <<>>) =>
        /\ calls.insert = 0
        /\ calls.commit = 0
        /\ NewRows = <<>>

C3_Witness ==
  /\ exit_code = 1
  /\ stats # <<>>
  /\ calls.lookup = 1
  /\ talent_id = <<>>
  /\ calls.insert = 0

\* C4 as stated: after a successful fetch and a successful resolve the
\* finished run has inserted exactly one row, with the resolved talent_id
\* and the fetched counts, and has exit code 0.
C4_Original ==
  (Exited /\ stats # <<>> /\ talent_id # <<>>) =>
     /\ Len(NewRows) = 1
     /\ RowMatches(NewRows[1])
     /\ exit_code = 0

\* C4 as amended: after a successful fetch and a successful resolve, if
\* save_snapshot returned success, the finished run has inserted exactly one
\* row, with the resolved talent_id and the fetched counts, and has exit
\* code 0.
C4_OneRowOnSuccess ==
  (Exited /\ stats # <<>> /\ talent_id # <<>> /\ saveResult.ret = "True") =>
     /\ Len(NewRows) = 1
     /\ RowMatches(NewRows[1])
     /\ exit_code = 0

C4_Witness ==
  /\ exit_code = 0
  /\ Len(NewRows) = 1
  /\ talent_id = <<"uuid_b">>
  /\ NewRows[1].talent_id = "uuid_b"
  /\ NewRows[1].sub_count = 1
  /\ NewRows[1].view_count = 0

\* C5: when the INSERT or the commit of save_snapshot raised a database
\* error, the transaction was rolled back, save_snapshot returned failure,
\* the run left no row in the snapshots table and the exit code is 1.
C5_Claim ==
  (Exited /\ saveResult.fault \in {"execute", "commit"}
          /\ saveResult.kind = "dberr") =>
     /\ saveResult.rolledBack
     /\ saveResult.ret = "False"
     /\ NewRows = <<>>
     /\ exit_code = 1

\* C6: any two runs over the same external data that both exit 0 have each
\* added one row of their own to the snapshots table; the two rows carry the
\* same talent and counts and two different recorded_at timestamps.
C6_NoDeduplication ==
  \A i \in 1..Len(history) : \A j \in 1..Len(history) :
     (i < j /\ history[i].exit_code = 0 /\ history[j].exit_code = 0) =>
        /\ Len(history[i].rows) = 1
        /\ Len(history[j].rows) = 1
        /\ history[i].rows[1].recorded_at # history[j].rows[1].recorded_at
        /\ Len(snapshots) >= 2
        /\ \E a \in 1..Len(snapshots) : \E b \in 1..Len(snapshots) :
              /\ a < b
              /\ snapshots[a] = history[i].rows[1]
              /\ snapshots[b] = history[j].rows[1]

C6_Witness ==
  /\ Len(history) = 2
  /\ history[1].exit_code = 0
  /\ history[2].exit_code = 0
  /\ Len(snapshots) = 2
  /\ snapshots[1].sub_count = snapshots[2].sub_count
  /\ snapshots[1].recorded_at < snapshots[2].recorded_at

\* C7: whenever some of the API key, database host, name, user and password
\* are missing, configuration loading raises a configuration error naming
\* exactly the missing ones and the process makes no API and no database
\* call.
ClaimedRequired ==
  {"YOUTUBE_API_KEY", "DB_HOST", "DB_NAME", "DB_USER", "DB_PASSWORD"}

C7_Claim ==
  (state # "import" /\ ClaimedRequired \ env # {}) =>
     /\ state = "config_error"
     /\ SeqRange(configMissing) = ClaimedRequired \ env
     /\ calls.api = 0
     /\ calls.connect = 0

\* C8: for every response with a matching resource, fetch_channel_stats
\* returns a record whose three counts are the integers the response carries,
\* and zero for each field the response lacks.
CountOf(field) ==
  IF field \in DOMAIN apiItems[1] THEN apiItems[1][field] ELSE 0

C8_FetchedCounts ==
  (response.status = "ok" /\ response.items # <<>>) =>
     /\ stats # <<>>
     /\ stats[1].subscriber_count = CountOf("subscriberCount")
     /\ stats[1].view_count = CountOf("viewCount")
     /\ stats[1].video_count = CountOf("videoCount")

C8_Witness ==
  /\ response.status = "ok"
  /\ response.items # <<>>
  /\ DOMAIN apiItems[1] = {"viewCount", "videoCount"}
  /\ response.items[1]["viewCount"] = <<"1", "0">>
  /\ stats # <<>>
  /\ stats[1].subscriber_count = 0
  /\ stats[1].view_count = 10
  /\ stats[1].video_count = 7

\* C9: a run moves start, api-connected, stats-fetched, db-connected,
\* talent-resolved, snapshot-saved, done one state at a time or from a state
\* before snapshot-saved to aborted; a step's call is made only in the state
\* its predecessor's success leads to; after aborted or done the state does
\* not change and nothing but the connection close is executed.
OrchOrder == <<"start", "api_connected", "stats_fetched", "db_connected",
               "talent_resolved", "snapshot_saved", "done">>

Pos(s) == CHOOSE i \in 1..Len(OrchOrder) : OrchOrder[i] = s

C9_Step ==
  run' = run =>
    /\ (state \in SeqRange(OrchOrder) /\ state' # state) =>
          \/ /\ Pos(state) < Len(OrchOrder)
             /\ state' = OrchOrder[Pos(state) + 1]
          \/ /\ Pos(state) < Pos("snapshot_saved")
             /\ state' = "aborted"
    /\ state \in {"aborted", "done"} =>
          /\ state' = state
          /\ snapshots' = snapshots
          /\ calls' = [calls EXCEPT !.close = calls'.close]
    /\ calls'.api > calls.api => state = "api_connected" /\ youtube
    /\ calls'.connect > calls.connect =>
          state = "stats_fetched" /\ stats # <<>>
    /\ calls'.lookup > calls.lookup => state = "db_connected" /\ conn = "open"
    /\ calls'.insert > calls.insert =>
          state = "talent_resolved" /\ talent_id # <<>>
    /\ calls'.commit > calls.commit =>
          state = "talent_resolved" /\ calls'.insert > calls.insert

C9_StateOrder == [][C9_Step]_vars

C9_Witness ==
  /\ state = "aborted"
  /\ Exited
  /\ calls = [api |-> 1, connect |-> 1, lookup |-> 1, insert |-> 1,
              commit |-> 0, rollback |-> 1, close |-> 1]

\* C10: the API fetch, the talent lookup, the INSERT and the commit are each
\* attempted at most once per run, and a finished run has committed a new
\* snapshot row if and only if its exit code is 0.
C10_Claim ==
  /\ calls.api <= 1
  /\ calls.lookup <= 1
  /\ calls.insert <= 1
  /\ calls.commit <= 1
  /\ Exited => (NewRows # <<>> <=> exit_code = 0)

=============================================================================
